---- MODULE Spec2Model ----
(***************************************************************************)
(* nordselect: the server catalog (Servers) of src/src/servers.rs, built   *)
(* by from_api and then narrowed, sorted, truncated, benchmarked and read  *)
(* by its caller in any order.                                             *)
(*                                                                         *)
(* servers : the Vec<Server> held by Servers                               *)
(* status  : "new" before from_api, "ready" once built, "failed" when      *)
(*           from_api returned Err, "aborted" when a call panicked         *)
(* op      : the last mutating call and its arguments                      *)
(* pre     : the catalog as that call found it                             *)
(* ret     : what that call returned                                       *)
(* best    : the value of perfect_server, when it was called since the     *)
(*           last mutating call                                            *)
(* older   : the call before the last mutating call and the catalog it     *)
(*           found, when that call was a filter_country (history)          *)
(* passes  : how many times benchmark_ping was called                      *)
(***************************************************************************)
EXTENDS Integers, Sequences, FiniteSets

VARIABLES servers, status, op, pre, ret, best, older, passes

vars == <<servers, status, op, pre, ret, best, older, passes>>

\* Longest payload (and so catalog) explored.
MaxLen == 2

\* u8::MAX, the range of ApiServer.load.
U8Max == 255

----------------------------------------------------------------------------
\* Option<T>, Result<(), Box<Error>> and a panic.

None == [some |-> FALSE]

Some(x) == [some |-> TRUE, val |-> x]

Ok == [kind |-> "Ok"]

Err(e) == [kind |-> "Err", error |-> e]

Panic(m) == [kind |-> "Panic", msg |-> m]

NoCall == [name |-> "none"]

NotCalled == [called |-> FALSE]

Range(s) == {s[i] : i \in 1..Len(s)}

SeqsUpTo(S, n) == UNION {[1..k -> S] : k \in 0..n}

----------------------------------------------------------------------------
\* CategoryType and the decoding of a category label.

CategoryType ==
  {"Standard", "P2P", "Obfuscated", "Dedicated", "Tor", "Double", "UnknownServer"}

\* A label of the payload is a string; it is held as its sequence of words,
\* so that str::replace can be computed on it.
StandardLabel == <<"Standard", "VPN", "servers">>

P2PLabel == <<"P2P">>

DoubleLabel == <<"Double", "VPN">>

OnionLabel == <<"Onion", "Over", "VPN">>

ObfuscatedLabel == <<"Obfuscated", "Servers">>

DedicatedLabel == <<"Dedicated", "IP">>

DedicatedServersLabel == <<"Dedicated", "IP", "servers">>

UnrecognisedLabel == <<"Anti", "DDoS">>

\* impl From<String> for CategoryType: total, the unknown label falls through.
CategoryFromString(label) ==
  CASE label = StandardLabel -> "Standard"
    [] label = P2PLabel -> "P2P"
    [] label = DoubleLabel -> "Double"
    [] label = OnionLabel -> "Tor"
    [] label = ObfuscatedLabel -> "Obfuscated"
    [] label = DedicatedLabel -> "Dedicated"
    [] OTHER -> "UnknownServer"

RECURSIVE Replace(_, _, _)
\* str::replace(from, to): every non-overlapping match, left to right.
Replace(s, from, to) ==
  IF Len(s) < Len(from) THEN s
  ELSE IF SubSeq(s, 1, Len(from)) = from
       THEN to \o Replace(SubSeq(s, Len(from) + 1, Len(s)), from, to)
       ELSE <<Head(s)>> \o Replace(Tail(s), from, to)

\* The five replacements from_api applies to the text, in order.
RewriteLabel(label) ==
  Replace(Replace(Replace(Replace(Replace(label,
    StandardLabel, <<"Standard">>),
    ObfuscatedLabel, <<"Obfuscated">>),
    DoubleLabel, <<"Double">>),
    OnionLabel, <<"Tor">>),
    DedicatedLabel, <<"Dedicated">>)

\* #[derive(Deserialize)] on the enum: a string decodes to the variant of that
\* exact name, and any other string is a decode error.
VariantDecodes(label) == Len(label) = 1 /\ label[1] \in CategoryType

DecodeVariant(label) == label[1]

----------------------------------------------------------------------------
\* ApiServer, Server and the structural decode.

RequiredFields == {"flag", "domain", "load", "categories", "features"}

\* #[derive(Deserialize)] on ApiServer and Category, on the rewritten text.
RecordDecodes(raw) ==
  /\ RequiredFields \subseteq DOMAIN raw
  /\ raw.load \in 0..U8Max
  /\ \A i \in 1..Len(raw.categories) :
       VariantDecodes(RewriteLabel(raw.categories[i].name))

ApiServerOf(raw) ==
  [flag |-> raw.flag, domain |-> raw.domain, load |-> raw.load,
   categories |-> [i \in 1..Len(raw.categories) |->
                     [name |-> DecodeVariant(RewriteLabel(raw.categories[i].name))]],
   features |-> raw.features]

\* impl From<ApiServer> for Server.
ServerFrom(api_server) ==
  [flag |-> api_server.flag, domain |-> api_server.domain,
   load |-> api_server.load,
   categories |-> [i \in 1..Len(api_server.categories) |->
                     api_server.categories[i].name],
   features |-> api_server.features,
   ping |-> None]

----------------------------------------------------------------------------
\* The payloads explored.

Loads == {1, 2}

Host(flag, domain, labels, udp, tcp) ==
  [flag |-> flag, domain |-> domain,
   categories |-> [i \in 1..Len(labels) |-> [name |-> labels[i]]],
   features |-> [openvpn_udp |-> udp, openvpn_tcp |-> tcp]]

WithLoad(host, load) ==
  [flag |-> host.flag, domain |-> host.domain, load |-> load,
   categories |-> host.categories, features |-> host.features]

Us1 == Host("US", "us1.nordvpn.com", <<StandardLabel, P2PLabel>>, TRUE, TRUE)

Us2 == Host("US", "us2.nordvpn.com", <<StandardLabel>>, TRUE, FALSE)

De1 == Host("DE", "de1.nordvpn.com", <<P2PLabel, DoubleLabel>>, FALSE, TRUE)

De2 == Host("DE", "de2.nordvpn.com", <<UnrecognisedLabel>>, TRUE, TRUE)

Nl1 == Host("NL", "nl1.nordvpn.com", <<DedicatedServersLabel>>, TRUE, TRUE)

\* Well-shaped records, some with labels outside the table, and one record
\* without its load.
RichRecords ==
  {WithLoad(h, l) : h \in {Us1, Us2, De1, De2, Nl1}, l \in Loads} \cup {Us1}

SmallRecords == {WithLoad(Us1, 1), WithLoad(De1, 1)}

\* What reqwest::get and text() give: the text, or a transport error.
Fetched(payload) == [ok |-> TRUE, text |-> payload]

TransportError == [ok |-> FALSE]

RichResponses == {Fetched(p) : p \in SeqsUpTo(RichRecords, MaxLen)} \cup {TransportError}

SmallResponses == {Fetched(p) : p \in SeqsUpTo(SmallRecords, MaxLen)}

----------------------------------------------------------------------------
\* Construction.

Record(call, result) ==
  /\ op' = call
  /\ pre' = servers
  /\ ret' = result
  /\ best' = NotCalled

from_api(response) ==
  /\ status = "new"
  /\ IF ~response.ok
     THEN /\ status' = "failed"
          /\ servers' = servers
          /\ Record([name |-> "from_api", response |-> response], Err("transport"))
     ELSE IF \A i \in 1..Len(response.text) : RecordDecodes(response.text[i])
     THEN /\ status' = "ready"
          /\ servers' = [i \in 1..Len(response.text) |->
                           ServerFrom(ApiServerOf(response.text[i]))]
          /\ Record([name |-> "from_api", response |-> response], Ok)
     ELSE /\ status' = "failed"
          /\ servers' = servers
          /\ Record([name |-> "from_api", response |-> response], Err("decode"))

----------------------------------------------------------------------------
\* Filters.

Protocols == {"Udp", "Tcp"}

FilterCategories == {"Standard", "P2P", "Tor"}

FilterCountries == {"US", "DE"}

\* retain with the closure negated.
Retain_Negated(s, keep) == SelectSeq(s, LAMBDA x : x \notin keep)

\* Vec::retain: the elements the closure accepts, in order. keep is the set
\* of server values the closure accepts.
Retain(s, keep) == SelectSeq(s, LAMBDA x : x \in keep)

HasCategory(category) == {x \in Range(servers) : category \in Range(x.categories)}

HasProtocol(protocol) ==
  {x \in Range(servers) :
     IF protocol = "Tcp" THEN x.features.openvpn_tcp ELSE x.features.openvpn_udp}

InCountry(country) == {x \in Range(servers) : x.flag = country}

InCountries(countries) == {x \in Range(servers) : x.flag \in countries}

filter_category(category) ==
  /\ status = "ready"
  /\ servers' = Retain(servers, HasCategory(category))
  /\ Record([name |-> "filter_category", category |-> category], Ok)
  /\ UNCHANGED status

filter_protocol(protocol) ==
  /\ status = "ready"
  /\ servers' = Retain(servers, HasProtocol(protocol))
  /\ Record([name |-> "filter_protocol", protocol |-> protocol], Ok)
  /\ UNCHANGED status

filter_country(country) ==
  /\ status = "ready"
  /\ servers' = Retain(servers, InCountry(country))
  /\ Record([name |-> "filter_country", country |-> country], Ok)
  /\ UNCHANGED status

filter_countries(countries) ==
  /\ status = "ready"
  /\ servers' = Retain(servers, InCountries(countries))
  /\ Record([name |-> "filter_countries", countries |-> countries], Ok)
  /\ UNCHANGED status

\* The Filter trait's kinds (the filters module): a predicate over one Server.
Filters ==
  {[kind |-> "Category", category |-> c] : c \in FilterCategories}
    \cup {[kind |-> "Protocol", protocol |-> p] : p \in Protocols}
    \cup {[kind |-> "Country", country |-> c] : c \in FilterCountries}
    \cup {[kind |-> "Countries", countries |-> cs] : cs \in SUBSET FilterCountries}

Matching(f) ==
  CASE f.kind = "Category" -> HasCategory(f.category)
    [] f.kind = "Protocol" -> HasProtocol(f.protocol)
    [] f.kind = "Country" -> InCountry(f.country)
    [] f.kind = "Countries" -> InCountries(f.countries)

filter(f) ==
  /\ status = "ready"
  /\ servers' = Retain(servers, Matching(f))
  /\ Record([name |-> "filter", filter |-> f], Ok)
  /\ UNCHANGED status

----------------------------------------------------------------------------
\* Sorting, truncation, selection.

Orderings(n) == {p \in [1..n -> 1..n] : \A i, j \in 1..n : p[i] = p[j] => i = j}

Permuted(s, p) == [i \in 1..Len(s) |-> s[p[i]]]

\* sort_load with the comparison reversed (y.load.cmp(&x.load)).
SortLoadResults_Reversed(s) ==
  {Permuted(s, p) : p \in {q \in Orderings(Len(s)) :
     \A i \in 1..(Len(s) - 1) : s[q[i]].load >= s[q[i + 1]].load}}

\* slice::sort_unstable_by on the key load: the result is sorted and is a
\* rearrangement of the slice; the order of equal elements is not specified.
SortLoadResults(s) ==
  {Permuted(s, p) : p \in {q \in Orderings(Len(s)) :
     \A i \in 1..(Len(s) - 1) : s[q[i]].load <= s[q[i + 1]].load}}

sort_load ==
  /\ status = "ready"
  /\ servers' \in SortLoadResults(servers)
  /\ Record([name |-> "sort_load"], Ok)
  /\ UNCHANGED status

\* Vec::truncate.
Truncate(s, max) == IF max >= Len(s) THEN s ELSE SubSeq(s, 1, max)

cut(max) ==
  /\ status = "ready"
  /\ servers' = Truncate(servers, max)
  /\ Record([name |-> "cut", max |-> max], Ok)
  /\ UNCHANGED status

\* perfect_server reading the last entry.
PerfectServer_Last(s) == IF Len(s) >= 1 THEN Some(s[Len(s)]) ELSE None

PerfectServer(s) == IF Len(s) >= 1 THEN Some(s[1]) ELSE None

perfect_server ==
  /\ status = "ready"
  /\ best = NotCalled
  /\ best' = [called |-> TRUE, value |-> PerfectServer(servers)]
  /\ UNCHANGED <<servers, status, op, pre, ret>>

----------------------------------------------------------------------------
\* Latency benchmark.

\* What one probe (Ping::add_host, then send) gives: the latency in whole
\* milliseconds, as the cast to usize leaves it, or an error.
Latencies == {1, 2}

Tries == {0, 1, 2}

\* The benchmark passes one run explores.
Passes == {1, 2}

Lost == [ok |-> FALSE]

Answered(latency_ms) == [ok |-> TRUE, latency_ms |-> latency_ms]

Answers == {Answered(l) : l \in Latencies}

\* The outcomes of the probes a pass of at most total probes performs, in the
\* order it performs them: total answers, or fewer answers and then an error.
ProbeRuns(total) ==
  [1..total -> Answers]
    \cup {Append(run, Lost) : run \in SeqsUpTo(Answers, total - 1)}

RECURSIVE Sum(_)
Sum(s) == IF s = <<>> THEN 0 ELSE Head(s).latency_ms + Sum(Tail(s))

\* ping_single dividing the sum by tries rounded up.
PingSingle_RoundsUp(server, tries, outcomes) ==
  IF \E k \in 1..Len(outcomes) : ~outcomes[k].ok
  THEN [server |-> server, result |-> Err("probe")]
  ELSE IF tries = 0
  THEN [server |-> server, result |-> Panic("attempt to divide by zero")]
  ELSE [server |-> [server EXCEPT !.ping = Some((Sum(outcomes) + tries - 1) \div tries)],
        result |-> Ok]

\* ping_single storing the sum so far before it returns the error.
PingSingle_StoresOnError(server, tries, outcomes) ==
  IF \E k \in 1..Len(outcomes) : ~outcomes[k].ok
  THEN [server |-> [server EXCEPT !.ping =
                      Some(Sum(SelectSeq(outcomes, LAMBDA o : o.ok)))],
        result |-> Err("probe")]
  ELSE IF tries = 0
  THEN [server |-> server, result |-> Panic("attempt to divide by zero")]
  ELSE [server |-> [server EXCEPT !.ping = Some(Sum(outcomes) \div tries)],
        result |-> Ok]

\* Server::ping_single, given the outcomes of the probes it performs.
PingSingle(server, tries, outcomes) ==
  IF \E k \in 1..Len(outcomes) : ~outcomes[k].ok
  THEN [server |-> server, result |-> Err("probe")]
  ELSE IF tries = 0
  THEN [server |-> server, result |-> Panic("attempt to divide by zero")]
  ELSE [server |-> [server EXCEPT !.ping = Some(Sum(outcomes) \div tries)],
        result |-> Ok]

\* The probes of the i-th retained server within the pass.
ProbesOf(probes, i, tries) ==
  SubSeq(probes, (i - 1) * tries + 1,
         IF i * tries <= Len(probes) THEN i * tries ELSE Len(probes))

RECURSIVE PingLoop(_, _, _, _)
\* The sequential loop of benchmark_ping from its i-th server on: it stops at
\* the first ping_single that does not return Ok, and what that call did to
\* its server stays.
PingLoop(s, i, tries, probes) ==
  IF i > Len(s) THEN [servers |-> s, result |-> Ok]
  ELSE LET one == PingSingle(s[i], tries, ProbesOf(probes, i, tries))
       IN IF one.result = Ok
          THEN PingLoop([s EXCEPT ![i] = one.server], i + 1, tries, probes)
          ELSE [servers |-> [s EXCEPT ![i] = one.server], result |-> one.result]

\* The branch on parallel: its true side is empty.
PingPass(s, tries, parallel, probes) ==
  IF parallel THEN [servers |-> s, result |-> Ok]
  ELSE PingLoop(s, 1, tries, probes)

\* sort_ping unwraps the ping of both servers of every comparison, and a
\* slice of two or more has each of its elements compared.
SortPingPanics(s) == Len(s) >= 2 /\ \E i \in 1..Len(s) : ~s[i].ping.some

\* sort_ping with the comparison reversed.
SortPingResults_Reversed(s) ==
  {Permuted(s, p) : p \in {q \in Orderings(Len(s)) :
     \A i \in 1..(Len(s) - 1) : s[q[i]].ping.val >= s[q[i + 1]].ping.val}}

\* benchmark_ping without its final sort.
SortPingResults_Omitted(s) == {s}

\* sort_unstable_by on the key ping: sorted, a rearrangement, the order of
\* equal elements not specified.
SortPingResults(s) ==
  {Permuted(s, p) : p \in {q \in Orderings(Len(s)) :
     \A i \in 1..(Len(s) - 1) : s[q[i]].ping.val <= s[q[i + 1]].ping.val}}

benchmark_ping(count, tries, parallel, probes) ==
  LET retained == Truncate(servers, count)
      pass == PingPass(retained, tries, parallel, probes)
      call == [name |-> "benchmark_ping", servers |-> count, tries |-> tries,
               parallel |-> parallel, probes |-> probes]
  IN /\ status = "ready"
     /\ passes + 1 \in Passes
     /\ passes' = passes + 1
     /\ probes \in ProbeRuns(IF parallel THEN 0 ELSE Len(retained) * tries)
     /\ IF pass.result.kind = "Err"
        THEN /\ servers' = pass.servers
             /\ Record(call, pass.result)
             /\ UNCHANGED status
        ELSE IF pass.result.kind = "Panic"
        THEN /\ servers' = pass.servers
             /\ Record(call, pass.result)
             /\ status' = "aborted"
        ELSE IF SortPingPanics(pass.servers)
        THEN /\ servers' = pass.servers
             /\ Record(call, Panic("called Option::unwrap() on a None value"))
             /\ status' = "aborted"
        ELSE /\ servers' \in SortPingResults(pass.servers)
             /\ Record(call, Ok)
             /\ UNCHANGED status

----------------------------------------------------------------------------
\* The specifications.

Init ==
  /\ servers = <<>>
  /\ status = "new"
  /\ op = NoCall
  /\ pre = <<>>
  /\ ret = Ok
  /\ best = NotCalled
  /\ older = [call |-> NoCall, pre |-> <<>>]
  /\ passes = 0

\* The history of the call before: kept for a filter_country only.
Remember ==
  /\ UNCHANGED passes
  /\ older' = IF op.name = "filter_country" THEN [call |-> op, pre |-> pre]
           ELSE [call |-> NoCall, pre |-> <<>>]

\* The selection pipeline, on payloads of every kind.
NextSelect ==
  \/ \E response \in RichResponses : from_api(response) /\ Remember
  \/ \E category \in FilterCategories : filter_category(category) /\ Remember
  \/ \E protocol \in Protocols : filter_protocol(protocol) /\ Remember
  \/ \E country \in FilterCountries : filter_country(country) /\ Remember
  \/ \E countries \in SUBSET FilterCountries : filter_countries(countries) /\ Remember
  \/ \E f \in Filters : filter(f) /\ Remember
  \/ sort_load /\ Remember
  \/ \E max \in 0..MaxLen : cut(max) /\ Remember
  \/ perfect_server /\ UNCHANGED <<older, passes>>

SpecSelect == Init /\ [][NextSelect]_vars

\* The history, for a call that is a benchmark pass.
RememberPass ==
  older' = IF op.name = "filter_country" THEN [call |-> op, pre |-> pre]
           ELSE [call |-> NoCall, pre |-> <<>>]

\* The benchmark and the operations that shorten and read the catalog around
\* it, on payloads of two hosts.
Next ==
  \/ \E response \in SmallResponses : from_api(response) /\ Remember
  \/ \E max \in 0..MaxLen : cut(max) /\ Remember
  \/ \E count \in 0..MaxLen, tries \in Tries, parallel \in BOOLEAN :
       \E probes \in ProbeRuns(IF parallel THEN 0
                                ELSE Len(Truncate(servers, count)) * tries) :
         benchmark_ping(count, tries, parallel, probes) /\ RememberPass
  \/ perfect_server /\ UNCHANGED <<older, passes>>

Spec == Init /\ [][Next]_vars

----------------------------------------------------------------------------
\* Vocabulary of the properties.

FilterNames ==
  {"filter", "filter_category", "filter_protocol", "filter_country", "filter_countries"}

\* Whether the predicate of the filter call keeps the server x.
KeptBy(call, x) ==
  CASE call.name = "filter_category" -> \E k \in 1..Len(x.categories) :
                                           x.categories[k] = call.category
    [] call.name = "filter_protocol" ->
         \/ call.protocol = "Tcp" /\ x.features.openvpn_tcp
         \/ call.protocol = "Udp" /\ x.features.openvpn_udp
    [] call.name = "filter_country" -> x.flag = call.country
    [] call.name = "filter_countries" -> \E c \in call.countries : x.flag = c
    [] call.name = "filter" ->
         \/ /\ call.filter.kind = "Category"
            /\ \E k \in 1..Len(x.categories) : x.categories[k] = call.filter.category
         \/ /\ call.filter.kind = "Protocol"
            /\ \/ call.filter.protocol = "Tcp" /\ x.features.openvpn_tcp
               \/ call.filter.protocol = "Udp" /\ x.features.openvpn_udp
         \/ call.filter.kind = "Country" /\ x.flag = call.filter.country
         \/ /\ call.filter.kind = "Countries"
            /\ \E c \in call.filter.countries : x.flag = c

IsRearrangement(a, b) ==
  /\ Len(a) = Len(b)
  /\ \E p \in Orderings(Len(b)) : \A i \in 1..Len(b) : a[i] = b[p[i]]

WithoutPing(s) == [i \in 1..Len(s) |-> [s[i] EXCEPT !.ping = None]]

WellShaped(raw) ==
  /\ {"flag", "domain", "load", "categories", "features"} \subseteq DOMAIN raw
  /\ raw.load \in 0..255

Benchmarked == op.name = "benchmark_ping"

\* The first min(count, len) servers of the catalog the pass found.
Prefix ==
  [i \in 1..(IF op.servers < Len(pre) THEN op.servers ELSE Len(pre)) |-> pre[i]]

\* The probes of the pass that went to its i-th server.
Sent(i) ==
  {k \in 1..Len(op.probes) : (i - 1) * op.tries < k /\ k <= i * op.tries}

RECURSIVE Total(_)
Total(ks) ==
  IF ks = {} THEN 0
  ELSE LET k == CHOOSE x \in ks : TRUE
       IN op.probes[k].latency_ms + Total(ks \ {k})

\* floor(sum / tries) of the i-th server's probes.
FloorMean(i) ==
  CHOOSE m \in 0..Total(Sent(i)) :
    m * op.tries <= Total(Sent(i)) /\ Total(Sent(i)) < (m + 1) * op.tries

AllAnswered ==
  /\ Len(op.probes) = Len(Prefix) * op.tries
  /\ \A k \in 1..Len(op.probes) : op.probes[k].ok

SomeLost == \E k \in 1..Len(op.probes) : ~op.probes[k].ok

\* The server whose probe was lost: the last probe of the run is the lost one.
Failing == ((Len(op.probes) - 1) \div op.tries) + 1

----------------------------------------------------------------------------
\* C1. As claimed: sort_load is a stable ascending sort by load: the catalog
\* after it is the catalog before it rearranged into non-decreasing load, and
\* two servers of equal load keep their relative order.
C1_SortLoadStable ==
  op.name = "sort_load" =>
    /\ Len(servers) = Len(pre)
    /\ \E p \in Orderings(Len(pre)) :
         /\ \A i \in 1..Len(pre) : servers[i] = pre[p[i]]
         /\ \A i \in 1..(Len(pre) - 1) : servers[i].load <= servers[i + 1].load
         /\ \A i, j \in 1..Len(pre) :
              (i < j /\ pre[p[i]].load = pre[p[j]].load) => p[i] < p[j]

\* C1, amended: the catalog after sort_load is the catalog before it
\* rearranged into non-decreasing load; nothing is said of the relative order
\* of servers of equal load.
C1_SortLoadSorted ==
  op.name = "sort_load" =>
    /\ IsRearrangement(servers, pre)
    /\ \A i \in 1..(Len(servers) - 1) : servers[i].load <= servers[i + 1].load
    /\ ret = Ok

C1_Witness ==
  /\ op.name = "sort_load"
  /\ Len(pre) = 2
  /\ pre[1].load > pre[2].load
  /\ servers = <<pre[2], pre[1]>>

\* C2. benchmark_ping with tries = 0 returns an invalid-input error, whatever
\* the catalog, the count and parallel, and does not divide by zero.
C2_ZeroTriesRejected ==
  (Benchmarked /\ op.tries = 0) => (ret.kind = "Err" /\ status = "ready")

\* C3. As claimed: after a benchmark_ping that returns Ok the catalog is the
\* first min(count, len) servers it found, in their order, with only ping
\* changed.
C3_OrderKept ==
  (Benchmarked /\ ret = Ok) => WithoutPing(servers) = WithoutPing(Prefix)

\* C3, amended: after a benchmark_ping that returns Ok the catalog holds the
\* first min(count, len) servers it found, with only ping changed, rearranged
\* into non-decreasing ping.
C3_OrderByPing ==
  (Benchmarked /\ ret = Ok) =>
    /\ IsRearrangement(WithoutPing(servers), WithoutPing(Prefix))
    /\ \A i \in 1..(Len(servers) - 1) :
         /\ servers[i].ping.some
         /\ servers[i + 1].ping.some
         /\ servers[i].ping.val <= servers[i + 1].ping.val

C3_Witness ==
  /\ Benchmarked
  /\ ret = Ok
  /\ Len(servers) = 2
  /\ servers[1].ping.val < servers[2].ping.val
  /\ WithoutPing(servers) # WithoutPing(Prefix)

\* C4. After a benchmark_ping (tries >= 1) that returns Ok, every server left in the
\* catalog has ping = Some; and a pass with parallel = true neither returns Ok
\* nor aborts with a retained server whose ping is None.
C4_PingSetAfterPass ==
  (Benchmarked /\ op.tries >= 1 /\ (ret = Ok \/ (op.parallel /\ ret.kind = "Panic"))) =>
    \A i \in 1..Len(servers) : servers[i].ping.some

\* C5. from_api on a fetched payload whose records all have their required
\* fields, rightly shaped, returns Ok, whatever the category labels: a label
\* outside the table gives the category UnknownServer.
C5_UnknownLabelKept ==
  (/\ op.name = "from_api"
   /\ op.response.ok
   /\ \A i \in 1..Len(op.response.text) : WellShaped(op.response.text[i])) =>
    /\ ret = Ok
    /\ status = "ready"
    /\ Len(servers) = Len(op.response.text)
    /\ \A i \in 1..Len(servers) :
         /\ Len(servers[i].categories) = Len(op.response.text[i].categories)
         /\ \A k \in 1..Len(servers[i].categories) :
              servers[i].categories[k] =
                CategoryFromString(op.response.text[i].categories[k].name)

\* C6. When a probe of a benchmark_ping is lost, the call returns an error;
\* the servers before the failing one hold the mean just measured, the failing
\* server and those after it are as the call found them, and the catalog is
\* the truncated prefix in its order.
C6_FailedPassKeepsMeasured ==
  (Benchmarked /\ SomeLost) =>
    /\ ret.kind = "Err"
    /\ status = "ready"
    /\ Len(servers) = Len(Prefix)
    /\ \A i \in 1..Len(servers) :
         IF i < Failing
         THEN servers[i] = [Prefix[i] EXCEPT !.ping = Some(FloorMean(i))]
         ELSE servers[i] = Prefix[i]

C6_Witness ==
  /\ Benchmarked
  /\ SomeLost
  /\ Failing = 2
  /\ Prefix[2].ping.some
  /\ Prefix[1].ping.some
  /\ servers[1].ping # Prefix[1].ping
  /\ servers[2] = Prefix[2]

\* C7. A sequential benchmark_ping with tries >= 1 whose probes are all
\* answered returns Ok and leaves exactly the first min(count, len) servers it
\* found, each with ping = Some(floor(sum of its probes / tries)).
C7_MeanOfProbes ==
  (Benchmarked /\ ~op.parallel /\ op.tries >= 1 /\ AllAnswered) =>
    /\ ret = Ok
    /\ IsRearrangement(servers,
         [i \in 1..Len(Prefix) |-> [Prefix[i] EXCEPT !.ping = Some(FloorMean(i))]])

C7_Witness ==
  /\ Benchmarked
  /\ ~op.parallel
  /\ op.tries = 2
  /\ op.servers = 1
  /\ Len(pre) = 2
  /\ AllAnswered
  /\ op.probes[1].latency_ms # op.probes[2].latency_ms
  /\ servers = <<[pre[1] EXCEPT !.ping = Some(1)]>>

\* C8. Every filter call leaves the servers of the catalog that satisfy its
\* predicate, each once and unmodified, in their order, and returns normally
\* also when none is left.
C8_FilterNarrows ==
  op.name \in FilterNames =>
    LET kept == {i \in 1..Len(pre) : KeptBy(op, pre[i])}
    IN /\ status = "ready"
       /\ ret = Ok
       /\ Len(servers) = Cardinality(kept)
       /\ \E at \in [1..Len(servers) -> kept] :
            /\ \A k \in 1..Len(servers) : servers[k] = pre[at[k]]
            /\ \A k \in 1..(Len(servers) - 1) : at[k] < at[k + 1]

C8_Witness ==
  /\ op.name = "filter"
  /\ op.filter.kind = "Category"
  /\ Len(pre) = 2
  /\ servers = <<pre[2]>>
  /\ pre[1] # pre[2]

\* C9. perfect_server returns the first server of the catalog, or None when
\* it is empty, and leaves the catalog as it is; after filter_country(c) and
\* then sort_load it returns a server of country c whose load is least among
\* the servers of country c that filter_country found, and None exactly when
\* there was none.
C9_PerfectServer ==
  best.called =>
    /\ IF Len(servers) = 0 THEN best.value = None
       ELSE best.value = Some(servers[1])
    /\ (op.name = "sort_load" /\ older.call.name = "filter_country") =>
         LET from == {i \in 1..Len(older.pre) : older.pre[i].flag = older.call.country}
         IN IF from = {} THEN best.value = None
            ELSE /\ best.value.some
                 /\ \E i \in from : best.value.val = older.pre[i]
                 /\ \A i \in from : best.value.val.load <= older.pre[i].load

C9_Witness ==
  /\ best.called
  /\ op.name = "sort_load"
  /\ older.call.name = "filter_country"
  /\ Len(older.pre) = 2
  /\ older.pre[1].flag = older.call.country
  /\ older.pre[2].flag = older.call.country
  /\ older.pre[1].load > older.pre[2].load
  /\ best.value = Some(older.pre[2])

\* C10. After a sequential benchmark_ping with tries >= 1 that returns Ok the
\* catalog is in non-decreasing ping, and perfect_server called next returns a
\* server whose ping is least among the means of the retained servers; after
\* one that returns an error the catalog is in the order the call found it.
C10_SortedAfterPass ==
  (Benchmarked /\ ~op.parallel /\ op.tries >= 1) =>
    /\ ret = Ok =>
         /\ \A i \in 1..Len(servers) : servers[i].ping.some
         /\ \A i \in 1..(Len(servers) - 1) :
              servers[i].ping.val <= servers[i + 1].ping.val
         /\ best.called =>
              IF Len(Prefix) = 0 THEN best.value = None
              ELSE /\ best.value.some
                   /\ \E i \in 1..Len(Prefix) :
                        /\ best.value.val.ping = Some(FloorMean(i))
                        /\ WithoutPing(<<best.value.val>>) = WithoutPing(<<Prefix[i]>>)
                   /\ \A i \in 1..Len(Prefix) : best.value.val.ping.val <= FloorMean(i)
    /\ ret.kind = "Err" => WithoutPing(servers) = WithoutPing(Prefix)

C10_Witness ==
  /\ Benchmarked
  /\ ~op.parallel
  /\ op.tries = 2
  /\ ret = Ok
  /\ best.called
  /\ Len(Prefix) = 2
  /\ WithoutPing(<<Prefix[1]>>) # WithoutPing(<<Prefix[2]>>)
  /\ WithoutPing(<<best.value.val>>) = WithoutPing(<<Prefix[2]>>)
  /\ best.value.val.ping.val < servers[2].ping.val

====
